---- MODULE Spec2Model ----
(***************************************************************************)
(* NFC Shell (src/main.py): the frame codec (PN532 inCommunicateThru and   *)
(* ACR122 direct transmit envelopes, response classification), the command *)
(* dispatcher NfcShell.do_run, the repeated mode NfcShell.do_loop and the  *)
(* interactive loop that calls them.                                       *)
(*                                                                         *)
(* A byte is an integer, a byte list a sequence of integers, and an        *)
(* argument string a sequence of one-character strings.  The card reader   *)
(* (connect_to_chip, connection.transmit), the operator's Ctrl+C and the   *)
(* typed command lines are the environment: every outcome they can have    *)
(* is a nondeterministic choice.                                           *)
(***************************************************************************)
EXTENDS Integers, Sequences, FiniteSets, TLC

\* Bounds of the model.
MaxCmds == 2    \* commands in a typed command list built from CmdStrings
MaxRuns == 2    \* runs of one loop command that the model follows

VARIABLES
    pc,          \* position of the process: prompt, connect, iter, transmit,
                 \* sleep, returned (handler back in cmdloop), exited
    mode,        \* handler in progress: "none", "run" or "loop"
    args,        \* do_run's args, the typed command list
    connection,  \* do_run's connection: "None", "False" (timeout) or "Conn"
    commands,    \* do_run's commands, the parsed byte lists
    idx,         \* position of the for loop in commands (1-based)
    sent,        \* frames given to connection.transmit in this run
    results,     \* (data, ok) pairs transmit_raw_command returned in this run
    out,         \* lines printed in this run
    count,       \* do_loop's count
    exc,         \* the exception that left do_run, if any
    runEnd,      \* how the run's for loop was left
    acquires,    \* calls of SmartCard.connect_to_chip in this run
    lastResp,    \* what the last call of connection.transmit returned, if it
                 \* returned
    prevSent     \* frames given to connection.transmit in the run before this
                 \* one of the same loop command

vars == <<pc, mode, args, connection, commands, idx, sent, results, out,
          count, exc, runEnd, acquires, lastResp, prevSent>>

----------------------------------------------------------------------------
\* Sequences as Python lists.

Min(a, b) == IF a < b THEN a ELSE b

\* s[:n]
Take(s, n) == SubSeq(s, 1, Min(n, Len(s)))

\* s[n:]
Drop(s, n) == SubSeq(s, Min(n, Len(s)) + 1, Len(s))

\* [v] * n
Rep(n, v) == [i \in 1..n |-> v]

----------------------------------------------------------------------------
\* smartcard.util.toBytes and str.split, as do_run uses them.

HexDigit == <<"0", "1", "2", "3", "4", "5", "6", "7", "8", "9",
              "A", "B", "C", "D", "E", "F">>

LowerHexDigit == <<"0", "1", "2", "3", "4", "5", "6", "7", "8", "9",
                   "a", "b", "c", "d", "e", "f">>

IsHex(c) == \E i \in 1..16 : HexDigit[i] = c \/ LowerHexDigit[i] = c

HexVal(c) == (CHOOSE i \in 1..16 : HexDigit[i] = c \/ LowerHexDigit[i] = c) - 1

\* toBytes drops the blanks of the string before it decodes it.
Packed(s) == SelectSeq(s, LAMBDA c : c # " ")

\* toBytes raises unless the packed string is an even number of hex digits.
CanParse(s) ==
    /\ Len(Packed(s)) % 2 = 0
    /\ \A i \in 1..Len(Packed(s)) : IsHex(Packed(s)[i])

toBytes(s) ==
    LET p == Packed(s)
    IN  [i \in 1..(Len(p) \div 2) |-> 16 * HexVal(p[2 * i - 1]) + HexVal(p[2 * i])]

\* args.split(";"): never empty, "" gives [""].
RECURSIVE Split(_)
Split(s) ==
    IF \A i \in 1..Len(s) : s[i] # ";"
    THEN <<s>>
    ELSE LET k == CHOOSE i \in 1..Len(s) :
                      /\ s[i] = ";"
                      /\ \A j \in 1..(i - 1) : s[j] # ";"
         IN  <<SubSeq(s, 1, k - 1)>> \o Split(SubSeq(s, k + 1, Len(s)))

\* commands = [util.toBytes(command) for command in args.split(";")]
ParseOk(a) == \A i \in 1..Len(Split(a)) : CanParse(Split(a)[i])

ParseCommands(a) == [i \in 1..Len(Split(a)) |-> toBytes(Split(a)[i])]

----------------------------------------------------------------------------
\* The frame codec.

in_communicate_thru_bad(command_bytes) == <<212>> \o command_bytes

in_communicate_thru_counting(command_bytes) ==
    <<212, 66 + (count % 2)>> \o command_bytes

\* PN532.in_communicate_thru_command: [0xD4, 0x42] + command_bytes
in_communicate_thru_command(command_bytes) == <<212, 66>> \o command_bytes

\* ACR122.direct_transmit_command:
\* [0xFF, 0x00, 0x00, 0x00] + [len(command_bytes)] + command_bytes
\* len() is a Python int: the element is not reduced to eight bits.
direct_transmit_command(command_bytes) ==
    <<255, 0, 0, 0>> \o <<Len(command_bytes)>> \o command_bytes

\* The frame transmit_raw_command builds for one command (lines 101-102).
Frame(command_bytes) ==
    direct_transmit_command(in_communicate_thru_command(command_bytes))

response_ok_any_sw1(data, sw1, sw2) == Take(data, 3) = <<213, 67, 0>>

\* ok = (sw1 == 0x90) and (data[:3] == [0xD5, 0x43, 0x00])
response_ok(data, sw1, sw2) == (sw1 = 144) /\ (Take(data, 3) = <<213, 67, 0>>)

response_data_on_marker(data) ==
    IF Take(data, 3) = <<213, 67, 0>> THEN Drop(data, 3) ELSE data

\* data = data[3:]
response_data(data) == Drop(data, 3)

----------------------------------------------------------------------------
\* Python exception classes and the except clauses that meet them.

ExcParent(t) ==
    CASE t = "RuntimeError"      -> "Exception"
      [] t = "TypeError"         -> "Exception"
      [] t = "Exception"         -> "BaseException"
      [] t = "KeyboardInterrupt" -> "BaseException"
      [] t = "SystemExit"        -> "BaseException"
      [] OTHER                   -> "BaseException"

RECURSIVE IsSubclass(_, _)
IsSubclass(t, c) ==
    \/ t = c
    \/ t # "BaseException" /\ IsSubclass(ExcParent(t), c)

NoExc == [type |-> "none", origin |-> "none"]

\* transmit_raw_command: except RuntimeError
TransmitCatches(t) == IsSubclass(t, "RuntimeError")

loop_catches_nothing(t) == FALSE

\* do_loop: except KeyboardInterrupt
LoopCatches(t) == IsSubclass(t, "KeyboardInterrupt")

----------------------------------------------------------------------------
\* The environment: what is typed, what the reader answers.

\* One command of a typed list: empty, two well-formed commands, a command
\* with a character that is no hex digit, a command with an odd digit count.
CmdStrings ==
    { <<>>,
      <<"0", "0", "A", "4">>,
      <<"F", "F", "B", "0">>,
      <<"Z", "Z">>,
      <<"0">> }

RECURSIVE ListsOf(_)
ListsOf(n) ==
    IF n = 1 THEN CmdStrings
    ELSE {a \o <<";">> \o c : a \in ListsOf(n - 1), c \in CmdStrings}

\* Lengths, in bytes, of the long commands: around the one-byte length limit.
LongLens == {253, 254, 255, 256}

ArgStrings ==
    UNION {ListsOf(n) : n \in 1..MaxCmds}
        \cup {Rep(2 * n, "A") : n \in LongLens}
        \cup { <<"0", "0", " ", "a", "4">> }

\* connect_to_chip: a connection, False on timeout, or it raises.
ConnectOutcomes == {"Conn", "False", "Raise"}

ResponseData ==
    { <<>>,
      <<213, 67>>,
      <<213, 67, 0>>,
      <<213, 67, 0, 65>>,
      <<213, 67, 1, 65>>,
      <<212, 67, 0, 65>> }

StatusSw1 == {144, 99}

StatusSw2 == {0, 1}

\* What connection.transmit may raise: a RuntimeError, or an exception that is
\* none (the reader library's own exceptions derive from Exception).
TransmitFaults == {"RuntimeError", "Exception"}

NoResp == [data |-> <<>>, sw1 |-> -1, sw2 |-> -1]

----------------------------------------------------------------------------
\* The shell.

Init ==
    /\ pc = "prompt"
    /\ mode = "none"
    /\ args = <<>>
    /\ connection = "None"
    /\ commands = <<>>
    /\ idx = 0
    /\ sent = <<>>
    /\ results = <<>>
    /\ out = <<>>
    /\ count = 0
    /\ exc = NoExc
    /\ runEnd = "none"
    /\ acquires = 0
    /\ lastResp = NoResp
    /\ prevSent = <<>>

\* Entry of do_run(args): nothing connected, parsed, sent or printed yet.
EnterRun(a, banner) ==
    /\ pc' = "connect"
    /\ args' = a
    /\ connection' = "None"
    /\ commands' = <<>>
    /\ idx' = 0
    /\ sent' = <<>>
    /\ results' = <<>>
    /\ out' = banner
    /\ exc' = NoExc
    /\ runEnd' = "running"
    /\ acquires' = 0
    /\ lastResp' = NoResp

\* do_run returns: to do_loop's time.sleep, or to cmdloop.
FinishRun(how) ==
    /\ pc' = IF mode = "loop" THEN "sleep" ELSE "returned"
    /\ runEnd' = how

\* An exception of class t leaves do_run.  do_run has no handler; do_loop
\* has one, for KeyboardInterrupt; cmdloop has none and _main re-raises,
\* so anything else ends the process.
Raise(t, origin) ==
    /\ exc' = [type |-> t, origin |-> origin]
    /\ runEnd' = "raised"
    /\ pc' = IF mode = "loop" /\ LoopCatches(t) THEN "returned" ELSE "exited"

no_break ==
    /\ idx' = idx + 1
    /\ pc' = "iter"
    /\ runEnd' = runEnd

\* do_run line 149: break
Break ==
    /\ idx' = idx
    /\ FinishRun("break")

same_index == idx

\* for command_bytes in commands: the position of the next iteration.
NextIndex == idx + 1

result_lines_rx_first(data, ok) ==
    << <<"RX_HEX", data>>, <<"RX_ASCII", data>> >>
        \o (IF ok THEN <<>> ELSE << <<"FAILED", commands[idx]>> >>)

\* do_run lines 142-148: what is printed for a result.
ResultLines(data, ok) ==
    IF ok
    THEN << <<"RX_HEX", data>>, <<"RX_ASCII", data>> >>
    ELSE << <<"FAILED", commands[idx]>> >>

\* do_run lines 141-149, with the (data, ok) transmit_raw_command returned.
HandleResult(printed, data, ok) ==
    /\ results' = Append(results, [data |-> data, ok |-> ok])
    /\ out' = printed \o ResultLines(data, ok)
    /\ IF ok
       THEN /\ idx' = NextIndex
            /\ pc' = "iter"
            /\ runEnd' = runEnd
       ELSE Break

\* cmdloop reads "run <a>" and calls do_run(a).
do_run(a) ==
    /\ pc = "prompt"
    /\ mode' = "run"
    /\ count' = count
    /\ prevSent' = <<>>
    /\ EnterRun(a, <<>>)

\* cmdloop reads "loop <a>": do_loop up to its first call of do_run.
do_loop(a) ==
    /\ pc = "prompt"
    /\ mode' = "loop"
    /\ count' = 1
    /\ prevSent' = <<>>
    /\ EnterRun(a, << <<"BANNER", <<>>>>, <<"RUN", <<1>>>> >>)

connect_result_none(r) == IF r = "False" THEN "None" ELSE r

\* connect_to_chip lines 42 and 45: return connection, return False.
ConnectResult(r) == r

\* do_run lines 133-136: connect to the reader, then parse the whole list.
Connect(r) ==
    /\ pc = "connect"
    /\ acquires' = acquires + 1
    /\ IF r = "Raise"
       THEN /\ Raise("Exception", "connect_to_chip")
            /\ UNCHANGED <<connection, commands, idx>>
       ELSE /\ connection' = ConnectResult(r)
            /\ IF ParseOk(args)
               THEN /\ commands' = ParseCommands(args)
                    /\ idx' = 1
                    /\ pc' = "iter"
                    /\ UNCHANGED <<exc, runEnd>>
               ELSE /\ Raise("TypeError", "toBytes")
                    /\ UNCHANGED <<commands, idx>>
    /\ UNCHANGED <<mode, args, sent, results, out, count, lastResp, prevSent>>

\* Head of the for loop; for a command, lines 139-140 and transmit_raw_command
\* up to its call of connection.transmit (lines 93-104).  r is what
\* connect_to_chip answers if transmit_raw_command is given no connection.
Iterate(r) ==
    /\ pc = "iter"
    /\ connection # "None" => r = connection
    /\ IF idx > Len(commands)
       THEN /\ FinishRun("listEnd")
            /\ UNCHANGED <<idx, sent, results, out, exc, acquires>>
       ELSE LET cmd == commands[idx]
                echoed == Append(out, <<"TX", cmd>>)
            IN  /\ acquires' = IF connection = "None" THEN acquires + 1 ELSE acquires
                /\ CASE r = "Raise" ->
                          /\ Raise("Exception", "connect_to_chip")
                          /\ out' = echoed
                          /\ UNCHANGED <<idx, sent, results>>
                     [] r = "False" ->
                          /\ HandleResult(Append(echoed, <<"TIMED_OUT", <<>>>>), <<>>, FALSE)
                          /\ UNCHANGED <<sent, exc>>
                     [] r = "Conn" ->
                          /\ sent' = Append(sent, Frame(cmd))
                          /\ out' = echoed
                          /\ pc' = "transmit"
                          /\ UNCHANGED <<idx, results, exc, runEnd>>
    /\ UNCHANGED <<mode, args, connection, commands, count, lastResp, prevSent>>

\* connection.transmit returns (data, sw1, sw2): lines 104-109, then 141-149.
TransmitReturn(data, sw1, sw2) ==
    /\ pc = "transmit"
    /\ lastResp' = [data |-> data, sw1 |-> sw1, sw2 |-> sw2]
    /\ HandleResult(out, response_data(data), response_ok(data, sw1, sw2))
    /\ UNCHANGED <<mode, args, connection, commands, sent, count, exc, acquires,
                   prevSent>>

\* connection.transmit raises: lines 110-112, or the exception leaves do_run.
TransmitRaise(t) ==
    /\ pc = "transmit"
    /\ IF TransmitCatches(t)
       THEN /\ HandleResult(out, <<>>, FALSE)
            /\ exc' = exc
       ELSE /\ Raise(t, "transmit")
            /\ UNCHANGED <<idx, results, out>>
    /\ lastResp' = NoResp
    /\ UNCHANGED <<mode, args, connection, commands, sent, count, acquires,
                   prevSent>>

\* do_loop lines 166-167 and 164-165: sleep, count, and the next run.
LoopNext ==
    /\ pc = "sleep"
    /\ count < MaxRuns
    /\ count' = count + 1
    /\ mode' = mode
    /\ prevSent' = sent
    /\ EnterRun(args, << <<"RUN", <<count + 1>>>> >>)

\* Ctrl+C: KeyboardInterrupt is raised wherever the main thread is.
Interrupt ==
    /\ pc \in {"prompt", "connect", "iter", "transmit", "sleep"}
    /\ exc' = [type |-> "KeyboardInterrupt", origin |-> "signal"]
    /\ runEnd' = IF pc \in {"connect", "iter", "transmit"} THEN "raised" ELSE runEnd
    /\ pc' = IF mode = "loop" /\ LoopCatches("KeyboardInterrupt")
             THEN "returned" ELSE "exited"
    /\ UNCHANGED <<mode, args, connection, commands, idx, sent, results, out,
                   count, acquires, lastResp, prevSent>>

\* do_help
do_help ==
    /\ pc = "prompt"
    /\ mode' = "help"
    /\ out' = << <<"HELP", <<>>>> >>
    /\ pc' = "returned"
    /\ UNCHANGED <<args, connection, commands, idx, sent, results, count, exc,
                   runEnd, acquires, lastResp, prevSent>>

\* do_exit: exit(0)
do_exit ==
    /\ pc = "prompt"
    /\ mode' = "exit"
    /\ exc' = [type |-> "SystemExit", origin |-> "do_exit"]
    /\ pc' = "exited"
    /\ UNCHANGED <<args, connection, commands, idx, sent, results, out, count,
                   runEnd, acquires, lastResp, prevSent>>

\* The handler has returned: cmdloop prompts for the next line.  The locals
\* of the handler are gone.
Cmdloop ==
    /\ pc = "returned"
    /\ pc' = "prompt"
    /\ mode' = "none"
    /\ args' = <<>>
    /\ connection' = "None"
    /\ commands' = <<>>
    /\ idx' = 0
    /\ sent' = <<>>
    /\ results' = <<>>
    /\ out' = <<>>
    /\ count' = 0
    /\ exc' = NoExc
    /\ runEnd' = "none"
    /\ acquires' = 0
    /\ lastResp' = NoResp
    /\ prevSent' = <<>>

Next ==
    \/ \E a \in ArgStrings : do_run(a)
    \/ \E a \in ArgStrings : do_loop(a)
    \/ \E r \in ConnectOutcomes : Connect(r)
    \/ \E r \in ConnectOutcomes : Iterate(r)
    \/ \E data \in ResponseData, sw1 \in StatusSw1, sw2 \in StatusSw2 :
           TransmitReturn(data, sw1, sw2)
    \/ \E t \in TransmitFaults : TransmitRaise(t)
    \/ LoopNext
    \/ Interrupt
    \/ do_help
    \/ do_exit
    \/ Cmdloop

Spec == Init /\ [][Next]_vars

----------------------------------------------------------------------------
\* Properties of the frame codec.

Bytes == 0..255

\* The frame the claim describes for command b.
ExpectedFrame(b) == <<255, 0, 0, 0, Len(b) + 2, 212, 66>> \o b

FrameIsAsDescribed(b, f) ==
    /\ f = ExpectedFrame(b)
    /\ \A i \in 1..Len(f) : f[i] \in Bytes

\* C1, as stated: for every command b of at most 255 bytes, the frame handed
\* to connection.transmit is FF 00 00 00, the single byte len(b)+2, D4 42,
\* then b, all of them bytes; also at 254 and 255 bytes.
C1_FrameUpTo255 ==
    pc = "transmit" =>
        (Len(commands[idx]) <= 255 =>
            FrameIsAsDescribed(commands[idx], sent[Len(sent)]))

\* C1, amended: for every command b of at most 253 bytes, the frame handed to
\* connection.transmit is FF 00 00 00, the single byte len(b)+2, D4 42, then b.
C1_FrameUpTo253 ==
    pc = "transmit" =>
        (Len(commands[idx]) <= 253 =>
            FrameIsAsDescribed(commands[idx], sent[Len(sent)]))

\* A 253-byte command has been framed and handed to transmit.
C1_Witness ==
    /\ pc = "transmit"
    /\ Len(commands[idx]) = 253
    /\ sent[Len(sent)][5] = 255
    /\ Len(sent[Len(sent)]) = 260

\* C2: after a completed transmit, ok is true exactly when sw1 = 0x90 and the
\* response starts with D5 43 00, whatever sw2 and the later bytes are.
C2_OkClassification ==
    lastResp # NoResp =>
        /\ results # <<>>
        /\ results[Len(results)].ok <=>
               /\ lastResp.sw1 = 144
               /\ Len(lastResp.data) >= 3
               /\ lastResp.data[1] = 213
               /\ lastResp.data[2] = 67
               /\ lastResp.data[3] = 0

\* A response with sw2 = 01 and a byte after the marker was classified ok.
C2_Witness ==
    /\ lastResp # NoResp
    /\ lastResp.sw2 = 1
    /\ Len(lastResp.data) = 4
    /\ results[Len(results)].ok

----------------------------------------------------------------------------
\* Properties of one dispatch run.

\* C3: a result with ok = false is the last result of its run: if it is the
\* result of position j, the run has exactly j results, has left the for loop
\* by its break, and no frame of a position after j was handed to transmit.
C3_HardShortCircuit ==
    \A j \in 1..Len(results) :
        ~results[j].ok =>
            /\ Len(results) = j
            /\ idx = j
            /\ Len(sent) <= j
            /\ runEnd = "break"
            /\ pc \in {"returned", "sleep"}

\* The first of two commands failed after its transmit; the run is over with
\* one result and one frame.
C3_Witness ==
    /\ Len(commands) = 2
    /\ Len(results) = 1
    /\ ~results[1].ok
    /\ Len(sent) = 1
    /\ lastResp # NoResp
    /\ pc = "returned"

\* C4: no command whose tunneled payload exceeds 255 bytes is handed to
\* transmit, and no frame with a length element outside 0..255 is.
C4_PayloadTooLargeRejected ==
    \A k \in 1..Len(sent) :
        /\ Len(commands[k]) + 2 <= 255
        /\ sent[k][5] \in Bytes

\* C5: a run over the empty argument string produces no result and hands no
\* frame to transmit.
C5_EmptyListNoContact ==
    (mode \in {"run", "loop"} /\ args = <<>>) =>
        (results = <<>> /\ sent = <<>>)

\* C6: a run whose connect timed out has no result and no transmit, and does
\* not end the way a failed command ends it.
C6_NoSessionAborts ==
    connection = "False" =>
        /\ results = <<>>
        /\ sent = <<>>
        /\ runEnd # "break"

\* C7: no exception raised by connection.transmit leaves the dispatch run.
C7_TransmitFaultsCaught == exc.origin # "transmit"

\* C8: the process is never ended by a malformed command, a transmit fault,
\* a timeout or a rejected command.
C8_RecoverableNeverTerminates ==
    pc = "exited" => exc.origin \notin {"toBytes", "transmit"}

\* C9: a run over a list with a malformed command acquires no session and
\* hands no frame to transmit.
C9_MalformedRejectedFirst ==
    (mode \in {"run", "loop"} /\ ~ParseOk(args)) =>
        (connection # "Conn" /\ sent = <<>>)

----------------------------------------------------------------------------
\* Properties of the loop mode.

\* C10, as stated: when do_loop has returned to the prompt, the run that had
\* begun to transmit its command list has reached list end or its first
\* failure.
C10_CancelOnlyBetweenRuns ==
    (mode = "loop" /\ pc = "returned" /\ sent # <<>>) =>
        runEnd \in {"listEnd", "break"}

\* C10, amended: in do_loop a KeyboardInterrupt takes effect wherever it
\* arrives, in a run or in the delay between two runs: the loop is back at
\* the prompt with that step, and no frame is sent and no result produced by it.
C10_CancelAnywhere ==
    [][(mode = "loop" /\ exc.type # "KeyboardInterrupt"
            /\ exc'.type = "KeyboardInterrupt")
        => (pc' = "returned" /\ sent' = sent /\ results' = results
            /\ (pc # "sleep" => runEnd' = "raised"))]_vars

\* do_loop was interrupted while the first of two frames was in flight.
C10_Witness ==
    /\ mode = "loop"
    /\ pc = "returned"
    /\ exc.type = "KeyboardInterrupt"
    /\ runEnd = "raised"
    /\ Len(commands) = 2
    /\ Len(sent) = 1
    /\ results = <<>>

----------------------------------------------------------------------------
\* More properties of the frame codec.

\* The bytes of d after the first three, none if d has fewer than three.
AfterThree(d) ==
    IF Len(d) <= 3 THEN <<>> ELSE [i \in 1..(Len(d) - 3) |-> d[i + 3]]

\* C11: after a completed transmit the result bytes are the response bytes
\* without the first three, whether ok is true or false; a response of fewer
\* than three bytes gives no result bytes and ok false.
C11_ResultBytes ==
    lastResp # NoResp =>
        /\ results # <<>>
        /\ results[Len(results)].data = AfterThree(lastResp.data)
        /\ Len(lastResp.data) < 3 =>
               /\ results[Len(results)].data = <<>>
               /\ ~results[Len(results)].ok

\* A response whose marker is wrong was stripped of its first three bytes all
\* the same.
C11_Witness ==
    /\ lastResp # NoResp
    /\ lastResp.sw1 = 144
    /\ lastResp.data = <<213, 67, 1, 65>>
    /\ results[Len(results)] = [data |-> <<65>>, ok |-> FALSE]

\* C12: the fifth element of every frame handed to transmit is one unsigned
\* 8-bit value and is the number of elements that follow it in the frame.
C12_LengthByteExact ==
    \A k \in 1..Len(sent) :
        /\ sent[k][5] \in Bytes
        /\ sent[k][5] = Len(sent[k]) - 5

----------------------------------------------------------------------------
\* More properties of one dispatch run.

\* C13: the frames handed to transmit are those of the first commands of the
\* list, in list order and one per position; a frame is handed over only when
\* every earlier position has its response, and that response was ok.
C13_InOrderOnce ==
    /\ Len(sent) <= Len(commands)
    /\ \A k \in 1..Len(sent) : sent[k] = ExpectedFrame(commands[k])
    /\ \A j \in 1..(Len(sent) - 1) : j <= Len(results) /\ results[j].ok
    /\ Len(sent) <= Len(results) + 1
    /\ Len(sent) = Len(results) + 1 => (pc = "transmit" \/ runEnd = "raised")
    /\ pc = "transmit" => (idx = Len(sent) /\ Len(results) = idx - 1)

\* The second of two different commands is in flight, after the response to
\* the first.
C13_Witness ==
    /\ pc = "transmit"
    /\ Len(commands) = 2
    /\ commands[1] # commands[2]
    /\ Len(sent) = 2
    /\ Len(results) = 1

\* The outcome of a run, read as generously as the code allows: a break with
\* no session counts as Aborted(NoSession).
Outcome ==
    CASE runEnd = "listEnd"                        -> "Stopped(Success)"
      [] runEnd = "break" /\ connection = "False"  -> "Aborted(NoSession)"
      [] runEnd = "break" /\ connection # "False"  -> "Stopped(Failure)"
      [] OTHER                                     -> "none"

\* C14: a run over a parsed command list that is over without a Ctrl+C has
\* ended in one of the three outcomes, and in Stopped(Success) exactly when a
\* session was present and every command was transmitted and got ok.
C14_ThreeOutcomes ==
    (/\ mode \in {"run", "loop"}
     /\ pc \in {"returned", "sleep", "exited"}
     /\ commands # <<>>
     /\ exc.type # "KeyboardInterrupt") =>
        /\ Outcome \in {"Aborted(NoSession)", "Stopped(Failure)", "Stopped(Success)"}
        /\ Outcome = "Stopped(Success)" <=>
               /\ connection = "Conn"
               /\ Len(sent) = Len(commands)
               /\ Len(results) = Len(commands)
               /\ \A j \in 1..Len(results) : results[j].ok

\* The lines of the run, without the loop's banner and run number.
RunLines == SelectSeq(out, LAMBDA l : l[1] \notin {"BANNER", "RUN", "HELP"})

\* The lines the first k results call for: per command its TX echo, then its
\* RX lines if ok, its failed line if not.
RECURSIVE LinesOfResults(_)
LinesOfResults(k) ==
    IF k = 0 THEN <<>>
    ELSE LinesOfResults(k - 1)
            \o << <<"TX", commands[k]>> >>
            \o (IF connection = "False" THEN << <<"TIMED_OUT", <<>>>> >> ELSE <<>>)
            \o (IF results[k].ok
                THEN << <<"RX_HEX", results[k].data>>, <<"RX_ASCII", results[k].data>> >>
                ELSE << <<"FAILED", commands[k]>> >>)

\* C15: what is printed is, command by command, the TX echo and then the
\* result output, RX lines for ok results only; a frame handed to transmit and
\* not yet answered has its TX echo as the last line.
C15_OutputOrder ==
    RunLines = LinesOfResults(Len(results))
                   \o (IF Len(sent) > Len(results)
                       THEN << <<"TX", commands[Len(sent)]>> >>
                       ELSE <<>>)

\* The first command got its RX lines, the second its failed line.
C15_Witness ==
    /\ Len(results) = 2
    /\ results[1].ok
    /\ ~results[2].ok
    /\ lastResp # NoResp
    /\ Len(RunLines) = 5

\* C17: a run calls connect_to_chip once, before its first transmit; every
\* frame goes to the connection of that call; no second call is made, not
\* even after a timeout result.
C17_OneAcquirePerRun ==
    /\ acquires <= 1
    /\ pc \in {"iter", "transmit"} => acquires = 1
    /\ (sent # <<>> \/ results # <<>>) => acquires = 1
    /\ sent # <<>> => connection = "Conn"

\* A run ended on the timeout result with the one call of connect_to_chip.
C17_Witness ==
    /\ connection = "False"
    /\ Len(results) = 1
    /\ ~results[1].ok
    /\ runEnd = "break"
    /\ acquires = 1

----------------------------------------------------------------------------
\* More properties of the loop mode.

\* C16: every run of do_loop starts with nothing sent and no result, and
\* do_loop is left only by a KeyboardInterrupt (an unexpected failure of
\* connect_to_chip set aside).
C16_LoopSurvives ==
    /\ (mode = "loop" /\ pc = "connect") =>
           (idx = 0 /\ commands = <<>> /\ sent = <<>> /\ results = <<>>)
    /\ (mode = "loop" /\ pc \in {"returned", "exited"}) =>
           (exc.type = "KeyboardInterrupt" \/ exc.origin = "connect_to_chip")

====
